---- MODULE Spec2Model ----
(***************************************************************************)
(* Financial calendar: the SQLite store (database.py), the projection      *)
(* engine (engine.py: run_projection, get_calendar_data) and the           *)
(* operations the Streamlit page (Home.py) invokes on them.                *)
(*                                                                         *)
(* Dates are day ordinals counted from 2024-01-01 (ordinal 0).  The store  *)
(* keeps dates as ISO strings "YYYY-MM-DD"; on such strings the string     *)
(* order used by SQL (MAX, >=) is the calendar order, so ordinals carry    *)
(* the same comparisons.  Amounts are whole currency units.                *)
(***************************************************************************)
EXTENDS Integers, Sequences, FiniteSets, TLC

VARIABLES
    users,                \* rows of table users (set of user ids)
    user_settings,        \* rows of table user_settings
    categories,           \* rows of table categories
    scheduled_transactions, \* rows of table scheduled_transactions
    transactions,         \* rows of table transactions
    next_id,              \* AUTOINCREMENT counters, one per table
    USER_ID,              \* per session: the user the page runs for
    pc,                   \* per session: position inside run_projection
    rp,                   \* per session: locals of run_projection
    outcome,              \* per session: how the last engine/store call ended
    calendar_df,          \* per session: value returned by get_calendar_data
    last,                 \* the last completed store operation and the rows before it
    lastDone,             \* the last completed run_projection and the rows it left
    runs,                 \* number of run_projection calls begun so far
    holes,                \* (rule, date) of the generated occurrences deleted
                          \* while the rule had a later-dated occurrence
    history               \* per session: its last two run_projection calls,
                          \* each with its horizon, the number of rows it
                          \* wrote and whether it returned

vars == << users, user_settings, categories, scheduled_transactions,
           transactions, next_id, USER_ID, pc, rp, outcome, calendar_df,
           last, lastDone, runs, holes, history >>

store == << users, user_settings, categories, scheduled_transactions,
            transactions, next_id >>

-----------------------------------------------------------------------------
(* Bounds of the model *)

MaxTx == 5          \* rows the transactions table may hold
MaxRules == 2       \* rows the scheduled_transactions table may hold
MaxRuns == 3        \* run_projection calls in one behaviour
MaxManual == 3      \* transactions entered by hand in one behaviour

NULL == 0 - 1       \* SQL NULL / Python None (ids and ordinals are >= 0)

Sessions == {1, 2}

-----------------------------------------------------------------------------
(* Calendar arithmetic of datetime.date and dateutil.relativedelta *)

EpochYear == 2024

IsLeap(y) == (y % 4 = 0 /\ y % 100 # 0) \/ (y % 400 = 0)

DaysInYear(y) == IF IsLeap(y) THEN 366 ELSE 365

DaysInMonth(y, m) ==
    IF m = 2 THEN (IF IsLeap(y) THEN 29 ELSE 28)
    ELSE IF m \in {4, 6, 9, 11} THEN 30 ELSE 31

RECURSIVE DaysBeforeYear(_)
DaysBeforeYear(y) ==
    IF y <= EpochYear THEN 0 ELSE DaysBeforeYear(y - 1) + DaysInYear(y - 1)

RECURSIVE DaysBeforeMonth(_, _)
DaysBeforeMonth(y, m) ==
    IF m <= 1 THEN 0 ELSE DaysBeforeMonth(y, m - 1) + DaysInMonth(y, m - 1)

\* the ordinal of the date y-m-d
Date(y, m, d) == DaysBeforeYear(y) + DaysBeforeMonth(y, m) + (d - 1)

RECURSIVE YearFrom(_, _)
YearFrom(y, n) == IF n < DaysInYear(y) THEN y ELSE YearFrom(y + 1, n - DaysInYear(y))

YearOf(n) == YearFrom(EpochYear, n)

RECURSIVE MonthFrom(_, _, _)
MonthFrom(y, m, n) ==
    IF n < DaysInMonth(y, m) THEN m ELSE MonthFrom(y, m + 1, n - DaysInMonth(y, m))

MonthOf(n) == MonthFrom(YearOf(n), 1, n - DaysBeforeYear(YearOf(n)))

DayOf(n) == n - Date(YearOf(n), MonthOf(n), 1) + 1

Min(a, b) == IF a <= b THEN a ELSE b

\* date + relativedelta(months=k): same day-of-month in the target month,
\* clamped to that month's last day
AddMonths(n, k) ==
    LET y == YearOf(n)
        m == MonthOf(n)
        d == DayOf(n)
        t == (m - 1) + k
        ny == y + (t \div 12)
        nm == (t % 12) + 1
    IN  Date(ny, nm, Min(d, DaysInMonth(ny, nm)))

\* date + relativedelta(days=k)
AddDays(n, k) == n + k

KnownFrequencies == {"daily", "weekly", "bi-weekly", "monthly", "bi-monthly"}

\* Advance with the third branch comparing against "biweekly"
Advance_biweekly(frequency, current_date) ==
    IF frequency = "daily" THEN AddDays(current_date, 1)
    ELSE IF frequency = "weekly" THEN AddDays(current_date, 7)
    ELSE IF frequency = "biweekly" THEN AddDays(current_date, 14)
    ELSE IF frequency = "monthly" THEN AddMonths(current_date, 1)
    ELSE IF frequency = "bi-monthly" THEN AddMonths(current_date, 2)
    ELSE current_date

\* the if/elif chain of run_projection: an unmatched frequency falls through
\* and leaves current_date as it is
Advance(frequency, current_date) ==
    IF frequency = "daily" THEN AddDays(current_date, 1)
    ELSE IF frequency = "weekly" THEN AddDays(current_date, 7)
    ELSE IF frequency = "bi-weekly" THEN AddDays(current_date, 14)
    ELSE IF frequency = "monthly" THEN AddMonths(current_date, 1)
    ELSE IF frequency = "bi-monthly" THEN AddMonths(current_date, 2)
    ELSE current_date

\* the date n steps of the chain after d
RECURSIVE Ahead(_, _, _)
Ahead(frequency, d, n) ==
    IF n = 0 THEN d ELSE Ahead(frequency, Advance(frequency, d), n - 1)

-----------------------------------------------------------------------------
(* Rows of the store (create_tables) *)

ScheduleRow(schedule_id, user_id, category_id, description, amount, frequency, start_date, end_date) ==
    [schedule_id |-> schedule_id, user_id |-> user_id,
     category_id |-> category_id, description |-> description,
     amount |-> amount, frequency |-> frequency,
     start_date |-> start_date, end_date |-> end_date]

TransactionRow(transaction_id, user_id, schedule_id, category_id, date, description, amount, is_confirmed) ==
    [transaction_id |-> transaction_id, user_id |-> user_id,
     schedule_id |-> schedule_id, category_id |-> category_id,
     date |-> date, description |-> description, amount |-> amount,
     is_confirmed |-> is_confirmed]

CategoryRow(category_id, user_id, name, type) ==
    [category_id |-> category_id, user_id |-> user_id, name |-> name,
     type |-> type]

\* the five categories get_or_create_user inserts for a new user, with the
\* AUTOINCREMENT ids first, first + 1, ...
DefaultCategories(user_id, first) ==
    { CategoryRow(first, user_id, "Paycheck", "credit"),
      CategoryRow(first + 1, user_id, "Rent", "debit"),
      CategoryRow(first + 2, user_id, "Groceries", "debit"),
      CategoryRow(first + 3, user_id, "Utilities", "debit"),
      CategoryRow(first + 4, user_id, "Other", "debit") }

\* FOREIGN KEY clauses of table transactions, enforced because
\* create_connection turns PRAGMA foreign_keys on
TransactionForeignKeysHold(row, us, scheds, cats) ==
    /\ row.user_id \in us
    /\ row.schedule_id = NULL
         \/ \E r \in scheds : r.schedule_id = row.schedule_id
    /\ row.category_id = NULL
         \/ \E c \in cats : c.category_id = row.category_id

\* FOREIGN KEY clauses of table scheduled_transactions
ScheduleForeignKeysHold(row, us, cats) ==
    /\ row.user_id \in us
    /\ row.category_id = NULL
         \/ \E c \in cats : c.category_id = row.category_id

\* no row of transactions references the schedule (the parent side of the
\* foreign key transactions.schedule_id, which has no ON DELETE action)
ScheduleUnreferenced(schedule_id, txs) ==
    \A t \in txs : t.schedule_id # schedule_id

RECURSIVE SumAmounts(_)
SumAmounts(rows) ==
    IF rows = {} THEN 0
    ELSE LET r == CHOOSE x \in rows : TRUE
         IN  r.amount + SumAmounts(rows \ {r})

RECURSIVE MaxOf(_)
MaxOf(S) ==
    LET x == CHOOSE y \in S : TRUE
    IN  IF S = {x} THEN x
        ELSE LET m == MaxOf(S \ {x}) IN IF x >= m THEN x ELSE m

RECURSIVE MinOf(_)
MinOf(S) ==
    LET x == CHOOSE y \in S : TRUE
    IN  IF S = {x} THEN x
        ELSE LET m == MinOf(S \ {x}) IN IF x <= m THEN x ELSE m

\* rows of scheduled_transactions in rowid (schedule_id) order, the order in
\* which the scan of an unordered SELECT returns them
RECURSIVE BySchedule(_)
BySchedule(rows) ==
    IF rows = {} THEN << >>
    ELSE LET k == MinOf({ r.schedule_id : r \in rows })
             r == CHOOSE x \in rows : x.schedule_id = k
         IN  << r >> \o BySchedule(rows \ {r})

-----------------------------------------------------------------------------
(* Queries of database.py *)

get_scheduled_transactions(user_id) ==
    BySchedule({ r \in scheduled_transactions : r.user_id = user_id })

\* get_last_generated_date selecting MIN(date) instead of MAX(date)
get_first_generated_date(user_id, schedule_id) ==
    LET ds == { t.date : t \in { x \in transactions :
                    x.user_id = user_id /\ x.schedule_id = schedule_id } }
    IN  IF ds = {} THEN NULL ELSE MinOf(ds)

\* SELECT MAX(date) ... WHERE user_id = ? AND schedule_id = ?
get_last_generated_date(user_id, schedule_id) ==
    LET ds == { t.date : t \in { x \in transactions :
                    x.user_id = user_id /\ x.schedule_id = schedule_id } }
    IN  IF ds = {} THEN NULL ELSE MaxOf(ds)

\* get_all_transactions_after with t.date > ? in place of t.date >= ?
get_all_transactions_strictly_after(txs, user_id, date) ==
    { t \in txs : t.user_id = user_id /\ t.date > date }

\* get_all_transactions_after without t.user_id = ? in its WHERE clause
get_all_transactions_after_any_user(txs, user_id, date) ==
    { t \in txs : t.date >= date }

get_all_transactions_after(txs, user_id, date) ==
    { t \in txs : t.user_id = user_id /\ t.date >= date }

\* get_user_settings without its WHERE user_id = ? clause
get_any_user_settings(sets, user_id) ==
    sets

get_user_settings(sets, user_id) ==
    { r \in sets : r.user_id = user_id }

-----------------------------------------------------------------------------
(* Values of the per-session variables between calls *)

IdleLocals ==
    [schedules |-> << >>, i |-> 0, projection_end_date |-> NULL,
     start_date |-> NULL, current_date |-> NULL, loop_end_date |-> NULL]

NoFrame == [fresh |-> FALSE, rows |-> << >>, view_start |-> NULL, view_end |-> NULL]

NoLast == [op |-> "none"]

NoDone == [valid |-> FALSE]

\* the last two entries of a session's history
Recent(h) ==
    IF Len(h) <= 2 THEN h ELSE SubSeq(h, Len(h) - 1, Len(h))

\* A session that writes reruns its script, which drops its calendar_df; the
\* frames other sessions hold no longer reflect the store.
AfterWrite(s) ==
    [t \in Sessions |->
        IF t = s THEN NoFrame ELSE [calendar_df[t] EXCEPT !.fresh = FALSE]]

\* a date string as date.isoformat() writes it, and as
\* datetime.isoformat() writes it (with a time part)
IsoDate(d) == [date |-> d, time |-> FALSE]

IsoDateTime(d) == [date |-> d, time |-> TRUE]

\* datetime.strptime(str, "%Y-%m-%d").date(): NULL stands for the ValueError
\* raised when text remains after the day
strptime(str) == IF str.time THEN NULL ELSE str.date

-----------------------------------------------------------------------------
(* CATEGORY CRUD *)

\* delete_category removing the occurrences of the category instead of
\* detaching them
delete_category_cascade(s, category_id) ==
    LET cat == { c \in categories :
                   c.category_id = category_id /\ c.user_id = USER_ID[s] }
        mine(r) == r.category_id = category_id /\ r.user_id = USER_ID[s]
        txs == { t \in transactions : ~mine(t) }
        scheds == { IF mine(r) THEN [r EXCEPT !.category_id = NULL] ELSE r :
                      r \in scheduled_transactions }
    IN  /\ pc[s] = "idle"
        /\ transactions' = txs
        /\ scheduled_transactions' = scheds
        /\ categories' = categories \ cat
        /\ outcome' = [outcome EXCEPT ![s] = "ok"]
        /\ calendar_df' = AfterWrite(s)
        /\ last' = [op |-> "delete_category", session |-> s,
                    category_id |-> category_id, categories |-> categories,
                    scheduled_transactions |-> scheduled_transactions,
                    transactions |-> transactions]
        /\ lastDone' = NoDone
        /\ UNCHANGED << users, user_settings, next_id, USER_ID, pc, rp, runs, holes, history >>

\* The "X" button of the category manager.  Two UPDATEs detach the user's
\* occurrences and rules, then the DELETE removes the category.  The DELETE
\* fails with IntegrityError when a row the UPDATEs did not touch (a row of
\* another user) still references the category; nothing is committed then,
\* and the connection, opened anew by each run of the script, is dropped with
\* its pending UPDATEs.
delete_category(s, category_id) ==
    LET cat == { c \in categories :
                   c.category_id = category_id /\ c.user_id = USER_ID[s] }
        mine(r) == r.category_id = category_id /\ r.user_id = USER_ID[s]
        txs == { IF mine(t) THEN [t EXCEPT !.category_id = NULL] ELSE t :
                   t \in transactions }
        scheds == { IF mine(r) THEN [r EXCEPT !.category_id = NULL] ELSE r :
                      r \in scheduled_transactions }
        raised == /\ cat # {}
                  /\ \/ \E t \in txs : t.category_id = category_id
                     \/ \E r \in scheds : r.category_id = category_id
    IN  /\ pc[s] = "idle"
        /\ IF raised
           THEN /\ UNCHANGED << categories, scheduled_transactions, transactions >>
                /\ outcome' = [outcome EXCEPT ![s] = "IntegrityError"]
           ELSE /\ transactions' = txs
                /\ scheduled_transactions' = scheds
                /\ categories' = categories \ cat
                /\ outcome' = [outcome EXCEPT ![s] = "ok"]
        /\ calendar_df' = AfterWrite(s)
        /\ last' = [op |-> "delete_category", session |-> s,
                    category_id |-> category_id, categories |-> categories,
                    scheduled_transactions |-> scheduled_transactions,
                    transactions |-> transactions]
        /\ lastDone' = NoDone
        /\ UNCHANGED << users, user_settings, next_id, USER_ID, pc, rp, runs, holes, history >>

-----------------------------------------------------------------------------
(* TRANSACTION CRUD *)

\* INSERT INTO transactions ...; the row takes the next AUTOINCREMENT id
add_transaction(user_id, date, category_id, description, amount, is_confirmed, schedule_id) ==
    LET row == TransactionRow(next_id.transactions, user_id, schedule_id,
                              category_id, date, description, amount,
                              is_confirmed)
    IN  /\ transactions' = transactions \cup {row}
        /\ next_id' = [next_id EXCEPT !.transactions = @ + 1]

\* the "Save Transaction" button of add_transaction_dialog with the
\* recurring toggle off
add_transaction_dialog(s, date, category_id, description, amount, is_confirmed) ==
    LET row == TransactionRow(next_id.transactions, USER_ID[s], NULL,
                              category_id, date, description, amount,
                              is_confirmed)
    IN  /\ pc[s] = "idle"
        /\ Cardinality(transactions) < MaxTx
        /\ Cardinality({ t \in transactions : t.schedule_id = NULL }) < MaxManual
        /\ IF TransactionForeignKeysHold(row, users, scheduled_transactions, categories)
           THEN /\ add_transaction(USER_ID[s], date, category_id, description,
                                   amount, is_confirmed, NULL)
                /\ outcome' = [outcome EXCEPT ![s] = "ok"]
           ELSE /\ UNCHANGED << transactions, next_id >>
                /\ outcome' = [outcome EXCEPT ![s] = "IntegrityError"]
        /\ calendar_df' = AfterWrite(s)
        /\ last' = NoLast
        /\ lastDone' = NoDone
        /\ UNCHANGED << users, user_settings, categories,
                        scheduled_transactions, USER_ID, pc, rp, runs, holes, history >>

update_transaction(s, transaction_id, date, category_id, description, amount, is_confirmed) ==
    LET hit == { t \in transactions : t.transaction_id = transaction_id
                                        /\ t.user_id = USER_ID[s] }
        new == { [t EXCEPT !.date = date, !.category_id = category_id,
                           !.description = description, !.amount = amount,
                           !.is_confirmed = is_confirmed] : t \in hit }
    IN  /\ pc[s] = "idle"
        /\ IF \A t \in new : TransactionForeignKeysHold(t, users,
                                  scheduled_transactions, categories)
           THEN /\ transactions' = (transactions \ hit) \cup new
                /\ outcome' = [outcome EXCEPT ![s] = "ok"]
           ELSE /\ UNCHANGED transactions
                /\ outcome' = [outcome EXCEPT ![s] = "IntegrityError"]
        /\ calendar_df' = AfterWrite(s)
        /\ last' = NoLast
        /\ lastDone' = NoDone
        /\ UNCHANGED << users, user_settings, categories,
                        scheduled_transactions, next_id, USER_ID, pc, rp, runs, holes, history >>

\* the Delete button of day_view_dialog
delete_transaction(s, transaction_id) ==
    LET hit == { t \in transactions : t.transaction_id = transaction_id
                                        /\ t.user_id = USER_ID[s] }
        later(t) == \E u \in transactions \ hit :
                       u.schedule_id = t.schedule_id /\ u.date > t.date
    IN  /\ pc[s] = "idle"
        /\ transactions' = transactions \ hit
        /\ holes' = holes \cup
                      { [schedule_id |-> t.schedule_id, date |-> t.date] :
                          t \in { x \in hit : x.schedule_id # NULL /\ later(x) } }
        /\ outcome' = [outcome EXCEPT ![s] = "ok"]
        /\ calendar_df' = AfterWrite(s)
        /\ last' = NoLast
        /\ lastDone' = NoDone
        /\ UNCHANGED << users, user_settings, categories, scheduled_transactions,
                        next_id, USER_ID, pc, rp, runs, history >>

-----------------------------------------------------------------------------
(* SCHEDULED TRANSACTION CRUD *)

add_scheduled_transaction(s, category_id, description, amount, frequency, start_date, end_date) ==
    LET row == ScheduleRow(next_id.scheduled_transactions, USER_ID[s],
                           category_id, description, amount, frequency,
                           start_date, end_date)
    IN  /\ pc[s] = "idle"
        /\ Cardinality(scheduled_transactions) < MaxRules
        /\ IF ScheduleForeignKeysHold(row, users, categories)
           THEN /\ scheduled_transactions' = scheduled_transactions \cup {row}
                /\ next_id' = [next_id EXCEPT !.scheduled_transactions = @ + 1]
                /\ outcome' = [outcome EXCEPT ![s] = "ok"]
           ELSE /\ UNCHANGED << scheduled_transactions, next_id >>
                /\ outcome' = [outcome EXCEPT ![s] = "IntegrityError"]
        /\ calendar_df' = AfterWrite(s)
        /\ last' = NoLast
        /\ lastDone' = NoDone
        /\ UNCHANGED << users, user_settings, categories, transactions,
                        USER_ID, pc, rp, runs, holes, history >>

\* The DELETE of the rule comes first.  When it removes a row that rows of
\* transactions still reference, the statement fails with IntegrityError
\* (foreign key without ON DELETE action, checked at the end of the
\* statement): the function raises before the second DELETE and before
\* commit, and the store keeps every row.
delete_scheduled_transaction(s, schedule_id, delete_future) ==
    LET rule == { r \in scheduled_transactions :
                    r.schedule_id = schedule_id /\ r.user_id = USER_ID[s] }
        raised == rule # {} /\ ~ScheduleUnreferenced(schedule_id, transactions)
        future == { t \in transactions :
                      /\ t.schedule_id = schedule_id
                      /\ t.user_id = USER_ID[s]
                      /\ t.is_confirmed = 0 }
    IN  /\ pc[s] = "idle"
        /\ IF raised
           THEN /\ UNCHANGED << scheduled_transactions, transactions >>
                /\ outcome' = [outcome EXCEPT ![s] = "IntegrityError"]
           ELSE /\ scheduled_transactions' = scheduled_transactions \ rule
                /\ transactions' = IF delete_future
                                   THEN transactions \ future
                                   ELSE transactions
                /\ outcome' = [outcome EXCEPT ![s] = "ok"]
        /\ calendar_df' = AfterWrite(s)
        /\ last' = [op |-> "delete_scheduled_transaction", session |-> s,
                    schedule_id |-> schedule_id,
                    delete_future |-> delete_future,
                    scheduled_transactions |-> scheduled_transactions,
                    transactions |-> transactions]
        /\ lastDone' = NoDone
        /\ UNCHANGED << users, user_settings, categories, next_id, USER_ID,
                        pc, rp, runs, holes, history >>

-----------------------------------------------------------------------------
(* USER SETTINGS *)

update_user_settings(s, start_balance, start_date) ==
    /\ pc[s] = "idle"
    /\ user_settings' =
         { IF r.user_id = USER_ID[s]
           THEN [r EXCEPT !.start_balance = start_balance,
                          !.start_date = start_date]
           ELSE r : r \in user_settings }
    /\ outcome' = [outcome EXCEPT ![s] = "ok"]
    /\ calendar_df' = AfterWrite(s)
    /\ last' = NoLast
    /\ lastDone' = NoDone
    /\ UNCHANGED << users, categories, scheduled_transactions, transactions,
                    next_id, USER_ID, pc, rp, runs, holes, history >>

-----------------------------------------------------------------------------
(* engine.run_projection, one action per store access *)

\* lines 12-13: fetch the user's rules, parse the horizon
run_projection_begin(s, projection_end_date_str) ==
    /\ pc[s] = "idle"
    /\ runs < MaxRuns
    /\ runs' = runs + 1
    /\ IF strptime(projection_end_date_str) = NULL
       THEN /\ outcome' = [outcome EXCEPT ![s] = "ValueError"]
            /\ UNCHANGED << pc, rp >>
       ELSE /\ pc' = [pc EXCEPT ![s] = "for"]
            /\ rp' = [rp EXCEPT ![s] =
                   [IdleLocals EXCEPT
                      !.schedules = get_scheduled_transactions(USER_ID[s]),
                      !.i = 1,
                      !.projection_end_date = strptime(projection_end_date_str)]]
            /\ outcome' = [outcome EXCEPT ![s] = "none"]
    /\ calendar_df' = [calendar_df EXCEPT ![s] = NoFrame]
    /\ last' = NoLast
    /\ history' = [history EXCEPT ![s] =
           Recent(Append(@, [horizon |-> strptime(projection_end_date_str),
                             written |-> 0, returned |-> FALSE]))]
    /\ UNCHANGED << store, USER_ID, lastDone, holes >>

\* run_projection_for resuming from the day after the last generated date
run_projection_for_next_day(s) ==
    /\ pc[s] = "for"
    /\ rp[s].i <= Len(rp[s].schedules)
    /\ LET schedule == rp[s].schedules[rp[s].i]
           start_date == schedule.start_date
           last_gen_date == get_last_generated_date(USER_ID[s], schedule.schedule_id)
           resume == IF last_gen_date # NULL THEN last_gen_date + 1 ELSE start_date
           projection_end_date == rp[s].projection_end_date
           loop_end_date ==
               IF schedule.end_date # NULL /\ schedule.end_date < projection_end_date
               THEN schedule.end_date
               ELSE projection_end_date
       IN  rp' = [rp EXCEPT ![s] =
                   [@ EXCEPT !.start_date = start_date,
                             !.current_date = Advance(schedule.frequency, resume),
                             !.loop_end_date = loop_end_date]]
    /\ pc' = [pc EXCEPT ![s] = "while"]
    /\ UNCHANGED << store, USER_ID, outcome, calendar_df, last, lastDone, runs,
                    holes, history >>

\* run_projection_for entering the loop on the resume date itself, without
\* the step that precedes the loop
run_projection_for_unstepped(s) ==
    /\ pc[s] = "for"
    /\ rp[s].i <= Len(rp[s].schedules)
    /\ LET schedule == rp[s].schedules[rp[s].i]
           start_date == schedule.start_date
           last_gen_date == get_last_generated_date(USER_ID[s], schedule.schedule_id)
           resume == IF last_gen_date # NULL THEN last_gen_date ELSE start_date
           projection_end_date == rp[s].projection_end_date
           loop_end_date ==
               IF schedule.end_date # NULL /\ schedule.end_date < projection_end_date
               THEN schedule.end_date
               ELSE projection_end_date
       IN  rp' = [rp EXCEPT ![s] =
                   [@ EXCEPT !.start_date = start_date,
                             !.current_date = resume,
                             !.loop_end_date = loop_end_date]]
    /\ pc' = [pc EXCEPT ![s] = "while"]
    /\ UNCHANGED << store, USER_ID, outcome, calendar_df, last, lastDone, runs,
                    holes, history >>

\* run_projection_for resuming from the rule's start_date whatever the
\* store holds for the rule
run_projection_for_from_start(s) ==
    /\ pc[s] = "for"
    /\ rp[s].i <= Len(rp[s].schedules)
    /\ LET schedule == rp[s].schedules[rp[s].i]
           start_date == schedule.start_date
           projection_end_date == rp[s].projection_end_date
           loop_end_date ==
               IF schedule.end_date # NULL /\ schedule.end_date < projection_end_date
               THEN schedule.end_date
               ELSE projection_end_date
       IN  rp' = [rp EXCEPT ![s] =
                   [@ EXCEPT !.start_date = start_date,
                             !.current_date = Advance(schedule.frequency, start_date),
                             !.loop_end_date = loop_end_date]]
    /\ pc' = [pc EXCEPT ![s] = "while"]
    /\ UNCHANGED << store, USER_ID, outcome, calendar_df, last, lastDone, runs,
                    holes, history >>

\* run_projection_for taking the later of the horizon and the rule's
\* end_date as the end of the loop
run_projection_for_to_later(s) ==
    /\ pc[s] = "for"
    /\ rp[s].i <= Len(rp[s].schedules)
    /\ LET schedule == rp[s].schedules[rp[s].i]
           start_date == schedule.start_date
           last_gen_date == get_last_generated_date(USER_ID[s], schedule.schedule_id)
           resume == IF last_gen_date # NULL THEN last_gen_date ELSE start_date
           projection_end_date == rp[s].projection_end_date
           loop_end_date ==
               IF schedule.end_date # NULL /\ schedule.end_date > projection_end_date
               THEN schedule.end_date
               ELSE projection_end_date
       IN  rp' = [rp EXCEPT ![s] =
                   [@ EXCEPT !.start_date = start_date,
                             !.current_date = Advance(schedule.frequency, resume),
                             !.loop_end_date = loop_end_date]]
    /\ pc' = [pc EXCEPT ![s] = "while"]
    /\ UNCHANGED << store, USER_ID, outcome, calendar_df, last, lastDone, runs,
                    holes, history >>

\* run_projection_for taking the horizon as the end of the loop, whatever
\* the rule's end_date
run_projection_for_to_horizon(s) ==
    /\ pc[s] = "for"
    /\ rp[s].i <= Len(rp[s].schedules)
    /\ LET schedule == rp[s].schedules[rp[s].i]
           start_date == schedule.start_date
           last_gen_date == get_last_generated_date(USER_ID[s], schedule.schedule_id)
           resume == IF last_gen_date # NULL THEN last_gen_date ELSE start_date
       IN  rp' = [rp EXCEPT ![s] =
                   [@ EXCEPT !.start_date = start_date,
                             !.current_date = Advance(schedule.frequency, resume),
                             !.loop_end_date = rp[s].projection_end_date]]
    /\ pc' = [pc EXCEPT ![s] = "while"]
    /\ UNCHANGED << store, USER_ID, outcome, calendar_df, last, lastDone, runs,
                    holes, history >>

\* lines 15-43: take the next rule, find where to resume, step once, set
\* the end of the loop
run_projection_for(s) ==
    /\ pc[s] = "for"
    /\ rp[s].i <= Len(rp[s].schedules)
    /\ LET schedule == rp[s].schedules[rp[s].i]
           start_date == schedule.start_date
           last_gen_date == get_last_generated_date(USER_ID[s], schedule.schedule_id)
           resume == IF last_gen_date # NULL THEN last_gen_date ELSE start_date
           projection_end_date == rp[s].projection_end_date
           loop_end_date ==
               IF schedule.end_date # NULL /\ schedule.end_date < projection_end_date
               THEN schedule.end_date
               ELSE projection_end_date
       IN  rp' = [rp EXCEPT ![s] =
                   [@ EXCEPT !.start_date = start_date,
                             !.current_date = Advance(schedule.frequency, resume),
                             !.loop_end_date = loop_end_date]]
    /\ pc' = [pc EXCEPT ![s] = "while"]
    /\ UNCHANGED << store, USER_ID, outcome, calendar_df, last, lastDone, runs,
                    holes, history >>

\* lines 46-69: one iteration of the while loop
run_projection_while(s) ==
    /\ pc[s] = "while"
    /\ rp[s].current_date <= rp[s].loop_end_date
    /\ LET schedule == rp[s].schedules[rp[s].i]
           row == TransactionRow(next_id.transactions, USER_ID[s],
                                 schedule.schedule_id, schedule.category_id,
                                 rp[s].current_date, schedule.description,
                                 schedule.amount, 0)
           advanced == [rp EXCEPT ![s].current_date =
                                     Advance(schedule.frequency, @)]
       IN  IF rp[s].current_date >= rp[s].start_date
           THEN /\ Cardinality(transactions) < MaxTx
                /\ IF TransactionForeignKeysHold(row, users,
                                       scheduled_transactions, categories)
                   THEN /\ add_transaction(USER_ID[s], rp[s].current_date,
                                           schedule.category_id,
                                           schedule.description,
                                           schedule.amount, 0,
                                           schedule.schedule_id)
                        /\ rp' = advanced
                        /\ history' = [history EXCEPT
                                          ![s][Len(history[s])].written = @ + 1]
                        /\ UNCHANGED << pc, outcome >>
                   ELSE /\ pc' = [pc EXCEPT ![s] = "idle"]
                        /\ rp' = [rp EXCEPT ![s] = IdleLocals]
                        /\ outcome' = [outcome EXCEPT ![s] = "IntegrityError"]
                        /\ UNCHANGED << transactions, next_id, history >>
                /\ calendar_df' = AfterWrite(s)
           ELSE /\ rp' = advanced
                /\ UNCHANGED << transactions, next_id, pc, outcome, calendar_df,
                                history >>
    /\ UNCHANGED << users, user_settings, categories, scheduled_transactions,
                    USER_ID, last, lastDone, runs, holes >>

\* line 46, condition false: the rule is done, on to the next one
run_projection_next(s) ==
    /\ pc[s] = "while"
    /\ rp[s].current_date > rp[s].loop_end_date
    /\ pc' = [pc EXCEPT ![s] = "for"]
    /\ rp' = [rp EXCEPT ![s].i = @ + 1]
    /\ UNCHANGED << store, USER_ID, outcome, calendar_df, last, lastDone, runs,
                    holes, history >>

\* line 15, no rule left: run_projection returns
run_projection_return(s) ==
    /\ pc[s] = "for"
    /\ rp[s].i > Len(rp[s].schedules)
    /\ pc' = [pc EXCEPT ![s] = "idle"]
    /\ rp' = [rp EXCEPT ![s] = IdleLocals]
    /\ outcome' = [outcome EXCEPT ![s] = "ok"]
    /\ lastDone' = [valid |-> TRUE, user_id |-> USER_ID[s],
                    horizon |-> rp[s].projection_end_date,
                    transactions |-> transactions]
    /\ history' = [history EXCEPT ![s][Len(history[s])].returned = TRUE]
    /\ UNCHANGED << store, USER_ID, calendar_df, last, runs, holes >>

\* run_projection cut short: an exception of a store call, or the end of
\* the process, leaves run_projection where it stands (engine.py has no
\* try/except).  add_transaction commits each insert, so the rows written
\* so far stay in the store.
run_projection_interrupted(s) ==
    /\ pc[s] \in {"for", "while"}
    /\ pc' = [pc EXCEPT ![s] = "idle"]
    /\ rp' = [rp EXCEPT ![s] = IdleLocals]
    /\ outcome' = [outcome EXCEPT ![s] = "Error"]
    /\ UNCHANGED << store, USER_ID, calendar_df, last, lastDone, runs, holes,
                    history >>

-----------------------------------------------------------------------------
(* engine.get_calendar_data *)

\* date_range leaving out its last day
date_range_open(start, end) ==
    IF end <= start THEN << >> ELSE [k \in 1..(end - start) |-> start + k - 1]

\* pd.date_range(start, end, freq='D') as a sequence of ordinals
date_range(start, end) ==
    IF end < start THEN << >> ELSE [k \in 1..(end - start + 1) |-> start + k - 1]

\* step 4: one group per day from the first to the last transaction date;
\* a day of that span without transactions is an empty group, on which the
\* sums are 0 and (x == 1).all() is True
daily_summary(all_transactions, d) ==
    LET day == { t \in all_transactions : t.date = d }
        credits == SumAmounts({ t \in day : t.amount > 0 })
        debits == SumAmounts({ t \in day : t.amount <= 0 })
    IN  [date |-> d, credits |-> credits, debits |-> debits,
         is_actual |-> \A t \in day : t.is_confirmed = 1,
         net_change |-> credits + debits]

\* step 6: left merge of the calendar on daily_summary, then fillna(0); a
\* calendar day outside the span [first_day, last_day] of daily_summary gets 0 in
\* every column, and astype(bool) of 0 is False
merged(all_transactions, first_day, last_day, d) ==
    IF first_day <= d /\ d <= last_day
    THEN daily_summary(all_transactions, d)
    ELSE [date |-> d, credits |-> 0, debits |-> 0, is_actual |-> FALSE,
          net_change |-> 0]

\* steps 5-7: rows k, k + 1, ... of the calendar built on full_date_range,
\* each with balance = start_balance + cumsum(net_change); before is the
\* balance of row k - 1
RECURSIVE calendar_rows(_, _, _, _, _, _)
calendar_rows(all_transactions, first_day, last_day, full_date_range, k, before) ==
    IF k > Len(full_date_range) THEN << >>
    ELSE LET row == merged(all_transactions, first_day, last_day, full_date_range[k])
             balance == before + row.net_change
         IN  << [date |-> row.date, credits |-> row.credits,
                 debits |-> row.debits, is_actual |-> row.is_actual,
                 net_change |-> row.net_change, balance |-> balance] >>
             \o calendar_rows(all_transactions, first_day, last_day,
                              full_date_range, k + 1, balance)

CalendarData(sets, txs, user_id, view_start, view_end) ==
    LET settings == get_user_settings(sets, user_id)
    IN  IF settings = {} THEN << >>
        ELSE
          LET st == CHOOSE r \in settings : TRUE
              start_balance == st.start_balance
              start_date == st.start_date
              all_transactions == get_all_transactions_after(txs, user_id, start_date)
          IN  IF all_transactions = {}
              THEN [k \in DOMAIN date_range(view_start, view_end) |->
                       [date |-> date_range(view_start, view_end)[k],
                        balance |-> start_balance, credits |-> 0,
                        debits |-> 0, is_actual |-> TRUE]]
              ELSE
                LET dates == { t.date : t \in all_transactions }
                    full_date_range == date_range(start_date, view_end)
                    full == calendar_rows(all_transactions, MinOf(dates),
                                          MaxOf(dates), full_date_range, 1,
                                          start_balance)
                    inView(r) == r.date >= view_start /\ r.date <= view_end
                IN  SelectSeq(full, inView)

\* get_calendar_data that also deletes the occurrences it does not read,
\* those dated before the anchor date
get_calendar_data_pruning(s, view_start, view_end) ==
    /\ pc[s] = "idle"
    /\ calendar_df' = [calendar_df EXCEPT ![s] =
          [fresh |-> TRUE,
           rows |-> CalendarData(user_settings, transactions, USER_ID[s],
                                 view_start, view_end),
           view_start |-> view_start, view_end |-> view_end]]
    /\ transactions' =
          { t \in transactions :
              \/ t.user_id # USER_ID[s]
              \/ \E r \in get_user_settings(user_settings, USER_ID[s]) :
                    t.date >= r.start_date }
    /\ UNCHANGED << users, user_settings, categories, scheduled_transactions,
                    next_id, USER_ID, pc, rp, outcome, last, lastDone, runs, holes, history >>

get_calendar_data(s, view_start, view_end) ==
    /\ pc[s] = "idle"
    /\ calendar_df' = [calendar_df EXCEPT ![s] =
          [fresh |-> TRUE,
           rows |-> CalendarData(user_settings, transactions, USER_ID[s],
                                 view_start, view_end),
           view_start |-> view_start, view_end |-> view_end]]
    /\ UNCHANGED << store, USER_ID, pc, rp, outcome, last, lastDone, runs, holes, history >>

-----------------------------------------------------------------------------
(* DATA LOADING & PROJECTION of the page, run on every interaction *)

ProjectionYears == 2

\* (datetime.today() + relativedelta(years=2)).isoformat(): today() is a
\* datetime, so the string carries a time part
projection_end_date(today) == IsoDateTime(AddMonths(today, 12 * ProjectionYears))

\* step 1 of the try block: engine.run_projection(conn, USER_ID,
\* projection_end_date); an exception it raises ends the script run in the
\* except branch (st.error, st.stop)
page_run_projection(s, today) ==
    run_projection_begin(s, projection_end_date(today))

\* step 2 of the try block, reached when run_projection has returned
page_get_calendar_data(s, view_start, view_end) ==
    /\ outcome[s] = "ok"
    /\ lastDone.valid
    /\ lastDone.user_id = USER_ID[s]
    /\ get_calendar_data(s, view_start, view_end)

-----------------------------------------------------------------------------
(* The store after initialize_database and get_or_create_user *)

Today == Date(2024, 1, 1)

\* one user has opened the page; both sessions belong to that user
FirstVisit(start_balance, start_date) ==
    /\ users = {"A"}
    /\ user_settings = { [user_id |-> "A", start_balance |-> start_balance,
                          start_date |-> start_date] }
    /\ categories = DefaultCategories("A", 1)
    /\ scheduled_transactions = {}
    /\ transactions = {}
    /\ next_id = [categories |-> 6, scheduled_transactions |-> 1,
                  transactions |-> 1]
    /\ USER_ID = [s \in Sessions |-> "A"]
    /\ pc = [s \in Sessions |-> "idle"]
    /\ rp = [s \in Sessions |-> IdleLocals]
    /\ outcome = [s \in Sessions |-> "none"]
    /\ calendar_df = [s \in Sessions |-> NoFrame]
    /\ last = NoLast
    /\ lastDone = NoDone
    /\ runs = 0
    /\ holes = {}
    /\ history = [s \in Sessions |-> << >>]

-----------------------------------------------------------------------------
(* Expansion of rules by one session *)

Frequencies == KnownFrequencies \cup {"yearly"}

RuleStarts == { Date(2024, 1, 1), Date(2024, 1, 31) }

RuleEnds == { NULL, Date(2024, 1, 15), Date(2024, 3, 15) }

Horizons == { Date(2024, 1, 3), Date(2024, 1, 31), Date(2024, 4, 1),
              Date(2024, 4, 30) }

Views == { << Date(2024, 1, 1), Date(2024, 3, 31) >>,
           << Date(2024, 2, 1), Date(2024, 2, 29) >> }

Init ==
    \E b \in {0, 1000} : FirstVisit(b, Today)

Next ==
    \/ \E f \in Frequencies, sd \in RuleStarts :
          add_scheduled_transaction(1, 2, "Rent", 0 - 100, f, sd, NULL)
    \/ \E h \in Horizons : run_projection_begin(1, IsoDate(h))
    \/ run_projection_for(1)
    \/ run_projection_while(1)
    \/ run_projection_next(1)
    \/ run_projection_return(1)
    \/ \E v \in Views : get_calendar_data(1, v[1], v[2])

Spec == Init /\ [][Next]_vars

-----------------------------------------------------------------------------
(* Expansion of one rule, run after run *)

\* the store once the user has saved one rule in add_transaction_dialog
WithRule(frequency, start_date, end_date) ==
    /\ users = {"A"}
    /\ user_settings = { [user_id |-> "A", start_balance |-> 0,
                          start_date |-> Today] }
    /\ categories = DefaultCategories("A", 1)
    /\ scheduled_transactions =
         { ScheduleRow(1, "A", 2, "Rent", 0 - 100, frequency, start_date,
                       end_date) }
    /\ transactions = {}
    /\ next_id = [categories |-> 6, scheduled_transactions |-> 2,
                  transactions |-> 1]
    /\ USER_ID = [s \in Sessions |-> "A"]
    /\ pc = [s \in Sessions |-> "idle"]
    /\ rp = [s \in Sessions |-> IdleLocals]
    /\ outcome = [s \in Sessions |-> "none"]
    /\ calendar_df = [s \in Sessions |-> NoFrame]
    /\ last = NoLast
    /\ lastDone = NoDone
    /\ runs = 0
    /\ holes = {}
    /\ history = [s \in Sessions |-> << >>]

InitExpand ==
    \E f \in Frequencies, sd \in RuleStarts, ed \in RuleEnds : WithRule(f, sd, ed)

NextExpand ==
    \/ \E h \in Horizons : run_projection_begin(1, IsoDate(h))
    \/ run_projection_for(1)
    \/ run_projection_while(1)
    \/ run_projection_next(1)
    \/ run_projection_return(1)

SpecExpand == InitExpand /\ [][NextExpand]_vars

-----------------------------------------------------------------------------
(* Expansion of one rule with a listed frequency, the loop run to its end.
   run_projection is straight-line Python: once a call is in the while loop
   the interpreter keeps executing it, so the loop body and the loop exit
   are taken whenever they are enabled. *)

InitTerm ==
    \E f \in KnownFrequencies, sd \in RuleStarts, ed \in RuleEnds : WithRule(f, sd, ed)

\* horizons on the rule's start date and a few periods after it
NextTerm ==
    \/ \E r \in scheduled_transactions, n \in {0, 2, MaxTx} :
          run_projection_begin(1, IsoDate(Ahead(r.frequency, r.start_date, n)))
    \/ run_projection_for(1)
    \/ run_projection_while(1)
    \/ run_projection_next(1)
    \/ run_projection_return(1)

SpecTerm ==
    /\ InitTerm
    /\ [][NextTerm]_vars
    /\ WF_vars(run_projection_while(1))
    /\ WF_vars(run_projection_next(1))

-----------------------------------------------------------------------------
(* Deleting generated occurrences between runs *)

InitHole ==
    \E f \in {"weekly", "monthly"}, sd \in RuleStarts : WithRule(f, sd, NULL)

NextHole ==
    \/ \E r \in scheduled_transactions, n \in {2, 3} :
          run_projection_begin(1, IsoDate(Ahead(r.frequency, r.start_date, n)))
    \/ run_projection_for(1)
    \/ run_projection_while(1)
    \/ run_projection_next(1)
    \/ run_projection_return(1)
    \/ \E t \in transactions : delete_transaction(1, t.transaction_id)

SpecHole == InitHole /\ [][NextHole]_vars

-----------------------------------------------------------------------------
(* One session adding rules, expanding them and deleting occurrences, one
   operation after the other.  The occurrence deleted is the latest of its
   rule, the one deletion that moves the date a later run resumes from. *)

SeqHorizons == { Date(2024, 1, 15), Date(2024, 3, 1) }

InitSeq ==
    \E f \in KnownFrequencies : WithRule(f, Date(2024, 1, 1), NULL)

NextSeq ==
    \/ add_scheduled_transaction(1, 3, "Groceries", 0 - 20, "weekly",
                                 Date(2024, 1, 1), NULL)
    \/ \E h \in SeqHorizons : run_projection_begin(1, IsoDate(h))
    \/ run_projection_for(1)
    \/ run_projection_while(1)
    \/ run_projection_next(1)
    \/ run_projection_return(1)
    \/ \E t \in transactions :
          /\ \A u \in transactions :
                u.schedule_id = t.schedule_id => u.date <= t.date
          /\ delete_transaction(1, t.transaction_id)

SpecSeq == InitSeq /\ [][NextSeq]_vars

-----------------------------------------------------------------------------
(* Two users holding the same rule, each expanding it in a session of its
   own: what one user's runs leave can be set against what the other's
   leave. *)

\* the store once users A and B have each opened the page
\* (get_or_create_user) and saved the same rule
TwoUsers(frequency, start_date, end_date) ==
    /\ users = {"A", "B"}
    /\ user_settings = { [user_id |-> u, start_balance |-> 0,
                          start_date |-> Today] : u \in {"A", "B"} }
    /\ categories = DefaultCategories("A", 1) \cup DefaultCategories("B", 6)
    /\ scheduled_transactions =
         { ScheduleRow(1, "A", 2, "Rent", 0 - 100, frequency, start_date,
                       end_date),
           ScheduleRow(2, "B", 7, "Rent", 0 - 100, frequency, start_date,
                       end_date) }
    /\ transactions = {}
    /\ next_id = [categories |-> 11, scheduled_transactions |-> 3,
                  transactions |-> 1]
    /\ USER_ID = [s \in Sessions |-> IF s = 1 THEN "A" ELSE "B"]
    /\ pc = [s \in Sessions |-> "idle"]
    /\ rp = [s \in Sessions |-> IdleLocals]
    /\ outcome = [s \in Sessions |-> "none"]
    /\ calendar_df = [s \in Sessions |-> NoFrame]
    /\ last = NoLast
    /\ lastDone = NoDone
    /\ runs = 0
    /\ holes = {}
    /\ history = [s \in Sessions |-> << >>]

InitExtend ==
    \E f \in KnownFrequencies, sd \in RuleStarts, ed \in {NULL, Date(2024, 2, 15)} :
        TwoUsers(f, sd, ed)

\* horizons on the rule's start date and one and two periods after it
NextExtend ==
    \/ \E s \in Sessions, r \in scheduled_transactions, n \in 0..2 :
          run_projection_begin(s, IsoDate(Ahead(r.frequency, r.start_date, n)))
    \/ \E s \in Sessions : run_projection_for(s)
    \/ \E s \in Sessions : run_projection_while(s)
    \/ \E s \in Sessions : run_projection_next(s)
    \/ \E s \in Sessions : run_projection_return(s)

SpecExtend == InitExtend /\ [][NextExtend]_vars

\* one horizon, two periods after the rule's start date; session 1 may be
\* cut short inside a run
InitResume ==
    \E f \in KnownFrequencies, sd \in RuleStarts : TwoUsers(f, sd, NULL)

NextResume ==
    \/ \E s \in Sessions, r \in scheduled_transactions :
          run_projection_begin(s, IsoDate(Ahead(r.frequency, r.start_date, 2)))
    \/ \E s \in Sessions : run_projection_for(s)
    \/ \E s \in Sessions : run_projection_while(s)
    \/ \E s \in Sessions : run_projection_next(s)
    \/ \E s \in Sessions : run_projection_return(s)
    \/ run_projection_interrupted(1)

SpecResume == InitResume /\ [][NextResume]_vars

-----------------------------------------------------------------------------
(* User A at work in a store that also holds user B's data.  B has been on
   the page before: B saved settings and a rule, entered an occurrence and
   had one generated, and may have deleted one of the two since.  A's calls take any
   id of the store, B's ids included. *)

\* the occurrences B has entered and had generated
OccurrencesOfB ==
    { TransactionRow(1, "B", NULL, 6, Date(2024, 1, 8), "Paycheck", 70, 1),
      TransactionRow(2, "B", 2, 7, Date(2024, 1, 8), "Rent", 0 - 100, 0) }

\* the settings B has saved: the ones get_or_create_user wrote, or others
SettingsOfB == { << 0, Today >>, << 500, Date(2024, 1, 3) >> }

InitIsolation ==
    \E b \in SettingsOfB, kept \in SUBSET OccurrencesOfB \ {{}} :
        /\ users = {"A", "B"}
        /\ user_settings =
             { [user_id |-> "A", start_balance |-> 0, start_date |-> Today],
               [user_id |-> "B", start_balance |-> b[1], start_date |-> b[2]] }
        /\ categories = DefaultCategories("A", 1) \cup DefaultCategories("B", 6)
        /\ scheduled_transactions =
             { ScheduleRow(1, "A", 2, "Rent", 0 - 100, "weekly",
                           Date(2024, 1, 1), NULL),
               ScheduleRow(2, "B", 7, "Rent", 0 - 100, "weekly",
                           Date(2024, 1, 1), NULL) }
        /\ transactions = kept
        /\ next_id = [categories |-> 11, scheduled_transactions |-> 3,
                      transactions |-> 3]
        /\ USER_ID = [s \in Sessions |-> IF s = 1 THEN "A" ELSE "B"]
        /\ pc = [s \in Sessions |-> "idle"]
        /\ rp = [s \in Sessions |-> IdleLocals]
        /\ outcome = [s \in Sessions |-> "none"]
        /\ calendar_df = [s \in Sessions |-> NoFrame]
        /\ last = NoLast
        /\ lastDone = NoDone
        /\ runs = 0
        /\ holes = {}
        /\ history = [s \in Sessions |-> << >>]

NextIsolation ==
    \/ run_projection_begin(1, IsoDate(Date(2024, 1, 15)))
    \/ run_projection_for(1)
    \/ run_projection_while(1)
    \/ run_projection_next(1)
    \/ run_projection_return(1)
    \/ get_calendar_data(1, Date(2024, 1, 1), Date(2024, 1, 15))
    \/ \E t \in transactions : delete_transaction(1, t.transaction_id)
    \/ \E c \in {2, 7} : delete_category(1, c)
    \/ \E r \in {1, 2} : delete_scheduled_transaction(1, r, TRUE)
    \/ update_user_settings(1, 500, Date(2024, 1, 3))

SpecIsolation == InitIsolation /\ [][NextIsolation]_vars

-----------------------------------------------------------------------------
(* Two sessions of one user expanding the same rule *)

InitConc ==
    \E f \in KnownFrequencies, sd \in RuleStarts : WithRule(f, sd, NULL)

NextConc ==
    \E s \in Sessions :
        \/ \E h \in Horizons : run_projection_begin(s, IsoDate(h))
        \/ run_projection_for(s)
        \/ run_projection_while(s)
        \/ run_projection_next(s)
        \/ run_projection_return(s)

SpecConc == InitConc /\ [][NextConc]_vars

-----------------------------------------------------------------------------
(* Confirming generated occurrences and deleting their rule *)

InitDelete ==
    \E f \in {"weekly", "monthly"} : WithRule(f, Date(2024, 1, 1), NULL)

NextDelete ==
    \/ \E h \in Horizons : run_projection_begin(1, IsoDate(h))
    \/ run_projection_for(1)
    \/ run_projection_while(1)
    \/ run_projection_next(1)
    \/ run_projection_return(1)
    \/ \E t \in transactions :
          update_transaction(1, t.transaction_id, t.date, t.category_id,
                             t.description, t.amount, 1)
    \/ \E r \in scheduled_transactions, delete_future \in BOOLEAN :
          delete_scheduled_transaction(1, r.schedule_id, delete_future)

SpecDelete == InitDelete /\ [][NextDelete]_vars

-----------------------------------------------------------------------------
(* Deleting categories that rules and occurrences use *)

UsedCategories == {1, 2}

InitCategory == FirstVisit(0, Today)

NextCategory ==
    \/ \E c \in UsedCategories :
          add_scheduled_transaction(1, c, "Rent", 0 - 100, "weekly",
                                    Date(2024, 1, 1), NULL)
    \/ \E c \in UsedCategories :
          add_transaction_dialog(1, Date(2024, 1, 2), c, "Paycheck", 50, 1)
    \/ run_projection_begin(1, IsoDate(Date(2024, 1, 15)))
    \/ run_projection_for(1)
    \/ run_projection_while(1)
    \/ run_projection_next(1)
    \/ run_projection_return(1)
    \/ \E c \in UsedCategories : delete_category(1, c)

SpecCategory == InitCategory /\ [][NextCategory]_vars

-----------------------------------------------------------------------------
(* Aggregation over hand-entered transactions *)

Anchor == Date(2024, 1, 3)

EntryDates == { Date(2024, 1, 2), Date(2024, 1, 3), Date(2024, 1, 8) }

EntryAmounts == { 0 - 100, 50 }

ViewStarts == { Date(2024, 1, 1), Date(2024, 1, 4) }

ViewEnds == { Date(2024, 1, 2), Date(2024, 1, 7) }

InitAgg ==
    \E b \in {0, 1000} : FirstVisit(b, Anchor)

NextAgg ==
    \/ \E d \in EntryDates, a \in EntryAmounts, c \in {0, 1} :
          add_transaction_dialog(1, d, 1, "Paycheck", a, c)
    \/ \E vs \in ViewStarts, ve \in ViewEnds : get_calendar_data(1, vs, ve)

SpecAgg == InitAgg /\ [][NextAgg]_vars

-----------------------------------------------------------------------------
(* A page whose get_or_create_user failed *)

\* get_or_create_user returns None when the store raises; the page goes on
\* with that value as USER_ID.  No row carries it: user_id is NOT NULL, and
\* user_id = NULL matches nothing.
None == "None"

\* user A has opened the page in session 1; in session 2 get_or_create_user
\* returned None
FailedVisit(start_balance, start_date) ==
    /\ users = {"A"}
    /\ user_settings = { [user_id |-> "A", start_balance |-> start_balance,
                          start_date |-> start_date] }
    /\ categories = DefaultCategories("A", 1)
    /\ scheduled_transactions = {}
    /\ transactions = {}
    /\ next_id = [categories |-> 6, scheduled_transactions |-> 1,
                  transactions |-> 1]
    /\ USER_ID = [s \in Sessions |-> IF s = 1 THEN "A" ELSE None]
    /\ pc = [s \in Sessions |-> "idle"]
    /\ rp = [s \in Sessions |-> IdleLocals]
    /\ outcome = [s \in Sessions |-> "none"]
    /\ calendar_df = [s \in Sessions |-> NoFrame]
    /\ last = NoLast
    /\ lastDone = NoDone
    /\ runs = 0
    /\ holes = {}
    /\ history = [s \in Sessions |-> << >>]

InitUnconfigured == FailedVisit(0, Date(2024, 1, 3))

NextUnconfigured ==
    \/ \E d \in { Date(2024, 1, 2), Date(2024, 1, 5) }, a \in { 0 - 100, 50 } :
          add_transaction_dialog(1, d, 1, "Paycheck", a, 1)
    \/ \E b \in {0, 1000} : update_user_settings(1, b, Date(2024, 1, 3))
    \/ \E s \in Sessions, vs \in { Date(2024, 1, 1), Date(2024, 1, 4) },
          ve \in { Date(2024, 1, 2), Date(2024, 1, 7) } :
          get_calendar_data(s, vs, ve)

SpecUnconfigured == InitUnconfigured /\ [][NextUnconfigured]_vars

-----------------------------------------------------------------------------
(* The page run on a store that holds rules and occurrences *)

InitPage ==
    \E b \in {0, 1000} : FirstVisit(b, Today)

NextPage ==
    \/ \E f \in KnownFrequencies, sd \in RuleStarts :
          add_scheduled_transaction(1, 2, "Rent", 0 - 100, f, sd, NULL)
    \/ add_transaction_dialog(1, Date(2024, 1, 2), 1, "Paycheck", 50, 1)
    \/ page_run_projection(1, Today)

SpecPage == InitPage /\ [][NextPage]_vars

-----------------------------------------------------------------------------
(* Properties of expansion *)

\* C1: a run_projection that follows a completed run_projection of the same
\* user with the same horizon, no other store operation in between, inserts
\* nothing: at every point of the second run the transactions table is the
\* one the first run left.
C1_SecondRunInsertsNothing ==
    \A s \in Sessions :
        ( /\ pc[s] # "idle"
          /\ lastDone.valid
          /\ lastDone.user_id = USER_ID[s]
          /\ lastDone.horizon = rp[s].projection_end_date )
        => transactions = lastDone.transactions

\* a second run with the horizon of the first has gone through its loop and
\* is about to return, the first run having generated several occurrences
C1_Witness ==
    /\ runs = 2
    /\ pc[1] = "for"
    /\ rp[1].i > Len(rp[1].schedules)
    /\ lastDone.valid
    /\ lastDone.horizon = rp[1].projection_end_date
    /\ Cardinality(transactions) >= 2

\* C4: however two run_projection executions of one user interleave, the
\* store never holds two occurrences with the same (schedule_id, date).
C4_NoDoubleGeneration ==
    \A t1, t2 \in transactions :
        ( /\ t1.schedule_id # NULL
          /\ t1.schedule_id = t2.schedule_id
          /\ t1.date = t2.date )
        => t1 = t2

\* C5: expansion writes no occurrence for a rule whose frequency is not one
\* of daily, weekly, bi-weekly, monthly, bi-monthly.
C5_UnrecognizedFrequencyWritesNothing ==
    \A t \in transactions :
        \A r \in scheduled_transactions :
            t.schedule_id = r.schedule_id => r.frequency \in KnownFrequencies

\* one completed run_projection with the given horizon over a store that held
\* exactly the given rule and no occurrence, nothing written since
AfterOneRun(rule, horizon) ==
    /\ scheduled_transactions = {rule}
    /\ runs = 1
    /\ pc[1] = "idle"
    /\ lastDone.valid
    /\ lastDone.horizon = horizon

BalanceOn(s, d) ==
    LET rows == calendar_df[s].rows
    IN  { rows[k].balance : k \in { j \in DOMAIN rows : rows[j].date = d } }

\* C6: anchor 2024-01-01, starting balance 1000, one monthly rule of -100
\* from 2024-01-01 without end date, horizon 2024-04-01: the store holds
\* exactly four occurrences of -100, on 01-01, 02-01, 03-01 and 04-01, and the
\* frame for 2024-01-01..2024-03-31 shows 900 on every day of January, 800
\* on every day of February and 700 on every day of March.
C6_EndToEnd ==
    ( /\ AfterOneRun(ScheduleRow(1, "A", 2, "Rent", 0 - 100, "monthly",
                                 Date(2024, 1, 1), NULL), Date(2024, 4, 1))
      /\ user_settings = { [user_id |-> "A", start_balance |-> 1000,
                            start_date |-> Date(2024, 1, 1)] } )
    => /\ Cardinality(transactions) = 4
       /\ { t.date : t \in transactions } =
             { Date(2024, 1, 1), Date(2024, 2, 1), Date(2024, 3, 1),
               Date(2024, 4, 1) }
       /\ \A t \in transactions : t.amount = 0 - 100 /\ t.schedule_id = 1
       /\ ( /\ calendar_df[1].fresh
            /\ calendar_df[1].view_start = Date(2024, 1, 1)
            /\ calendar_df[1].view_end = Date(2024, 3, 31) )
          => /\ \A d \in Date(2024, 1, 1)..Date(2024, 1, 31) : BalanceOn(1, d) = {900}
             /\ \A d \in Date(2024, 2, 1)..Date(2024, 2, 29) : BalanceOn(1, d) = {800}
             /\ \A d \in Date(2024, 3, 1)..Date(2024, 3, 31) : BalanceOn(1, d) = {700}

\* C7: a monthly rule from 2024-01-31, no stored occurrence, horizon
\* 2024-04-30: the occurrences are dated 01-31, 02-29, 03-29 or 03-31, and
\* 04-30.
C7_MonthClamping ==
    AfterOneRun(ScheduleRow(1, "A", 2, "Rent", 0 - 100, "monthly",
                            Date(2024, 1, 31), NULL), Date(2024, 4, 30))
    => \/ { t.date : t \in transactions } =
             { Date(2024, 1, 31), Date(2024, 2, 29), Date(2024, 3, 29),
               Date(2024, 4, 30) }
       \/ { t.date : t \in transactions } =
             { Date(2024, 1, 31), Date(2024, 2, 29), Date(2024, 3, 31),
               Date(2024, 4, 30) }

\* C15: every occurrence run_projection writes for a rule is dated d with
\* rule.start_date <= d <= min(horizon, rule.end_date), a missing end_date
\* counting as no limit.
C15_GenerationBounds ==
    [][ \A t \in transactions' :
          ( /\ t.schedule_id # NULL
            /\ \A u \in transactions : u.transaction_id # t.transaction_id ) =>
            \E s \in Sessions, r \in scheduled_transactions :
                /\ pc[s] = "while"
                /\ t.user_id = USER_ID[s]
                /\ r.schedule_id = t.schedule_id
                /\ r.start_date <= t.date
                /\ t.date <= rp[s].projection_end_date
                /\ r.end_date = NULL \/ t.date <= r.end_date ]_vars

\* a run whose horizon lies after the rule's end date has returned, having
\* written occurrences up to the end date itself
C15_Witness ==
    /\ lastDone.valid
    /\ \E r \in scheduled_transactions :
          /\ r.end_date # NULL
          /\ r.end_date < lastDone.horizon
          /\ \E t \in transactions :
                t.schedule_id = r.schedule_id /\ t.date = r.end_date
          /\ \E t \in transactions :
                t.schedule_id = r.schedule_id /\ t.date < r.end_date

\* C16: a rule whose end_date is earlier than its start_date gets no
\* occurrence from run_projection, whatever the horizon and the frequency,
\* and the run reports no error.
C16_InvertedRangeWritesNothing ==
    \A r \in scheduled_transactions :
        (r.end_date # NULL /\ r.end_date < r.start_date)
        => /\ \A t \in transactions : t.schedule_id # r.schedule_id
           /\ \A s \in Sessions : outcome[s] \in {"none", "ok"}

\* a run with a horizon after the start date of a rule whose end date
\* precedes its start date has returned
C16_Witness ==
    /\ lastDone.valid
    /\ outcome[1] = "ok"
    /\ \E r \in scheduled_transactions :
          /\ r.end_date # NULL
          /\ r.end_date < r.start_date
          /\ r.start_date < lastDone.horizon
    /\ transactions = {}

\* C17: every date an invocation of expansion writes for a rule is strictly
\* later than every occurrence date stored for that rule when the invocation
\* began and than every date the invocation wrote before it: at each write,
\* the new date is strictly later than all dates the store holds for the rule.
C17_StrictlyAfterResumption ==
    [][ \A t \in transactions' :
          ( /\ t.schedule_id # NULL
            /\ \A u \in transactions : u.transaction_id # t.transaction_id ) =>
            \A u \in transactions :
                u.schedule_id = t.schedule_id => u.date < t.date ]_vars

\* C18: for a rule with one of the five listed frequencies and a finite
\* horizon, the generation loop of run_projection ends, after finitely many
\* writes, with the cursor strictly after the end of the loop.
C18_ExpansionTerminates ==
    \A s \in Sessions :
        (pc[s] = "while")
        ~> (pc[s] = "for" /\ rp[s].current_date > rp[s].loop_end_date)

\* the loop has ended after several writes in one run
C18_Witness ==
    /\ pc[1] = "for"
    /\ rp[1].i = 2
    /\ rp[1].current_date > rp[1].loop_end_date
    /\ runs = 1
    /\ Cardinality(transactions) >= 3

\* C19 as stated: once a generated occurrence that is not the latest-dated
\* one of its rule has been deleted, no later run_projection writes an
\* occurrence for that rule on the deleted date.
C19_HoleNeverRefilled ==
    [][ \A t \in transactions' :
          ( /\ t.schedule_id # NULL
            /\ \A u \in transactions : u.transaction_id # t.transaction_id ) =>
            \A h \in holes :
                h.schedule_id = t.schedule_id => t.date # h.date ]_vars

\* C19 amended: once a generated occurrence that is not the latest-dated one
\* of its rule has been deleted, a later run_projection writes no occurrence
\* for that rule on the deleted date as long as the store holds an occurrence
\* of the rule dated later than the deleted one.
C19_HoleKeptBelowLatest ==
    [][ \A t \in transactions' :
          ( /\ t.schedule_id # NULL
            /\ \A u \in transactions : u.transaction_id # t.transaction_id ) =>
            \A h \in holes :
                ( /\ h.schedule_id = t.schedule_id
                  /\ \E u \in transactions :
                        u.schedule_id = h.schedule_id /\ u.date > h.date )
                => t.date # h.date ]_vars

\* a run that followed the deletion of a rule's first occurrence has written
\* a further occurrence and returned, the deleted date still empty
C19_Witness ==
    /\ lastDone.valid
    /\ runs = 2
    /\ next_id.transactions = 4
    /\ \E h \in holes :
          /\ \A t \in transactions :
                t.schedule_id = h.schedule_id => t.date # h.date
          /\ Cardinality({ t \in transactions :
                             t.schedule_id = h.schedule_id /\ t.date > h.date }) = 2

-----------------------------------------------------------------------------
(* Properties of runs set against a single run (two users, same rule) *)

\* the occurrences stored for the rules of a user, and their dates
RuleRows(user_id) ==
    { t \in transactions : t.user_id = user_id /\ t.schedule_id # NULL }

RuleDates(user_id) ==
    { t.date : t \in RuleRows(user_id) }

\* both sessions are between calls; session 1 has made two calls, session 2
\* one, and that one returned
TwoCallsAgainstOne ==
    /\ \A s \in Sessions : pc[s] = "idle"
    /\ runs = 3
    /\ Len(history[1]) = 2
    /\ Len(history[2]) = 1
    /\ history[2][1].returned

\* C24: for a rule with a listed frequency and horizons H1 <= H2, a run to
\* H1 followed by a run to H2 leaves the same set of occurrence dates as a
\* single run to H2 from the same initial store, rules starting on day 31
\* included.
C24_HorizonExtension ==
    ( /\ TwoCallsAgainstOne
      /\ history[1][1].returned
      /\ history[1][2].returned
      /\ history[1][1].horizon <= history[1][2].horizon
      /\ history[2][1].horizon = history[1][2].horizon )
    => RuleDates(USER_ID[1]) = RuleDates(USER_ID[2])

\* a monthly rule starting on January 31: the run to February 29 wrote one
\* occurrence, the run to March 29 the next one
C24_Witness ==
    /\ TwoCallsAgainstOne
    /\ history[1][1].returned
    /\ history[1][2].returned
    /\ history[1][1].horizon < history[1][2].horizon
    /\ history[2][1].horizon = history[1][2].horizon
    /\ history[1][1].written = 1
    /\ history[1][2].written = 1
    /\ \E r \in scheduled_transactions :
          /\ r.user_id = USER_ID[1]
          /\ r.frequency = "monthly"
          /\ r.start_date = Date(2024, 1, 31)
    /\ RuleDates(USER_ID[1]) = { Date(2024, 2, 29), Date(2024, 3, 29) }

\* C25: when a run is cut short after some of its inserts were committed, a
\* later complete run with the same horizon leaves for each rule the
\* occurrences one uninterrupted run leaves: the same dates, each once.
C25_ResumptionAfterInterruption ==
    ( /\ TwoCallsAgainstOne
      /\ ~history[1][1].returned
      /\ history[1][2].returned
      /\ history[1][1].horizon = history[1][2].horizon
      /\ history[2][1].horizon = history[1][2].horizon )
    => /\ RuleDates(USER_ID[1]) = RuleDates(USER_ID[2])
       /\ Cardinality(RuleRows(USER_ID[1])) = Cardinality(RuleDates(USER_ID[1]))
       /\ Cardinality(RuleRows(USER_ID[2])) = Cardinality(RuleDates(USER_ID[2]))

\* the run that was cut short had committed one insert, the complete run
\* wrote the other
C25_Witness ==
    /\ TwoCallsAgainstOne
    /\ ~history[1][1].returned
    /\ history[1][2].returned
    /\ history[1][1].horizon = history[1][2].horizon
    /\ history[2][1].horizon = history[1][2].horizon
    /\ history[1][1].written = 1
    /\ history[1][2].written = 1
    /\ Cardinality(RuleRows(USER_ID[2])) = 2

-----------------------------------------------------------------------------
(* Properties of one user's calls in a store shared with another user *)

OfUser(rows, user_id) ==
    { r \in rows : r.user_id = user_id }

\* C26: a call made for user A (run_projection, get_calendar_data,
\* delete_transaction, delete_category, delete_scheduled_transaction,
\* update_user_settings) leaves user B's settings, categories, rules and
\* occurrences as they were, and the series get_calendar_data returns for A
\* is the one it returns from A's rows alone, whatever B's rows are.
C26_UserIsolation ==
    [][ /\ OfUser(user_settings', USER_ID[2]) = OfUser(user_settings, USER_ID[2])
        /\ OfUser(categories', USER_ID[2]) = OfUser(categories, USER_ID[2])
        /\ OfUser(scheduled_transactions', USER_ID[2])
              = OfUser(scheduled_transactions, USER_ID[2])
        /\ OfUser(transactions', USER_ID[2]) = OfUser(transactions, USER_ID[2])
        /\ calendar_df'[1].fresh =>
              calendar_df'[1].rows =
                CalendarData(OfUser(user_settings', USER_ID[1]),
                             OfUser(transactions', USER_ID[1]), USER_ID[1],
                             calendar_df'[1].view_start,
                             calendar_df'[1].view_end) ]_vars

\* A has generated occurrences, deleted one and lost a category; B holds an
\* occurrence in A's view and settings that differ from A's; A's series is
\* fresh
C26_Witness ==
    /\ calendar_df[1].fresh
    /\ lastDone.valid
    /\ Cardinality(OfUser(transactions, USER_ID[1])) = 1
    /\ Cardinality(OfUser(categories, USER_ID[1])) = 4
    /\ OfUser(transactions, USER_ID[2]) # {}
    /\ OfUser(user_settings, USER_ID[2]) =
          { [user_id |-> USER_ID[2], start_balance |-> 500,
             start_date |-> Date(2024, 1, 3)] }
    /\ \A r \in OfUser(user_settings, USER_ID[1]) : r.start_balance = 0

-----------------------------------------------------------------------------
(* Properties of rule deletion *)

\* the occurrences of the store before the last operation that it would
\* remove as the unconfirmed occurrences of its rule
FutureOf(op) ==
    { t \in op.transactions :
        /\ t.schedule_id = op.schedule_id
        /\ t.user_id = USER_ID[op.session]
        /\ t.is_confirmed = 0 }

\* C10: delete_scheduled_transaction(schedule_id, user, delete_future=True)
\* on a rule that has confirmed and unconfirmed generated occurrences
\* completes without error; afterwards the rule is gone, its unconfirmed
\* occurrences are gone, and every other occurrence is still there unchanged.
C10_SelectiveFutureDeletion ==
    ( /\ last.op = "delete_scheduled_transaction"
      /\ last.delete_future
      /\ \E r \in last.scheduled_transactions :
            r.schedule_id = last.schedule_id /\ r.user_id = USER_ID[last.session]
      /\ \E t \in last.transactions :
            t.schedule_id = last.schedule_id /\ t.is_confirmed = 1
      /\ \E t \in last.transactions :
            t.schedule_id = last.schedule_id /\ t.is_confirmed = 0 )
    => /\ outcome[last.session] = "ok"
       /\ \A r \in scheduled_transactions : r.schedule_id # last.schedule_id
       /\ transactions = last.transactions \ FutureOf(last)

\* C11: delete_scheduled_transaction(schedule_id, user, delete_future=False)
\* on a rule that has generated occurrences completes without error;
\* afterwards the rule is gone and every occurrence of the store, those of
\* the rule included, is still there unchanged.
C11_DeletionKeepsOccurrences ==
    ( /\ last.op = "delete_scheduled_transaction"
      /\ ~last.delete_future
      /\ \E r \in last.scheduled_transactions :
            r.schedule_id = last.schedule_id /\ r.user_id = USER_ID[last.session]
      /\ \E t \in last.transactions : t.schedule_id = last.schedule_id )
    => /\ outcome[last.session] = "ok"
       /\ \A r \in scheduled_transactions : r.schedule_id # last.schedule_id
       /\ transactions = last.transactions

-----------------------------------------------------------------------------
(* Properties of category deletion *)

\* the row referenced the category the last operation deleted, as a row of
\* the user who deleted it
Detached(op, row) ==
    row.category_id = op.category_id /\ row.user_id = USER_ID[op.session]

\* C12: delete_category(category_id, user) on a category of the user removes
\* the category, deletes no occurrence and no rule, sets to null the category
\* reference of every occurrence and rule of that user that referenced it,
\* and leaves every other field of every occurrence and rule as it was.
C12_SoftCategoryDetach ==
    ( /\ last.op = "delete_category"
      /\ \E c \in last.categories :
            c.category_id = last.category_id /\ c.user_id = USER_ID[last.session] )
    => /\ outcome[last.session] = "ok"
       /\ \A c \in categories : c.category_id # last.category_id
       /\ categories \subseteq last.categories
       /\ Cardinality(categories) = Cardinality(last.categories) - 1
       /\ transactions =
            { IF Detached(last, t) THEN [t EXCEPT !.category_id = NULL] ELSE t :
                t \in last.transactions }
       /\ Cardinality(transactions) = Cardinality(last.transactions)
       /\ scheduled_transactions =
            { IF Detached(last, r) THEN [r EXCEPT !.category_id = NULL] ELSE r :
                r \in last.scheduled_transactions }
       /\ Cardinality(scheduled_transactions) =
            Cardinality(last.scheduled_transactions)

\* a category has just been deleted that a rule, an occurrence generated
\* from it and a hand-entered occurrence referenced, while another
\* occurrence references a different category
C12_Witness ==
    /\ last.op = "delete_category"
    /\ outcome[last.session] = "ok"
    /\ \E r \in last.scheduled_transactions : r.category_id = last.category_id
    /\ \E t \in last.transactions :
          t.category_id = last.category_id /\ t.schedule_id # NULL
    /\ \E t \in last.transactions :
          t.category_id = last.category_id /\ t.schedule_id = NULL
    /\ \E t \in transactions : t.category_id \notin {NULL, last.category_id}

-----------------------------------------------------------------------------
(* Properties of aggregation.  A frame is judged against the store while it
   is fresh, that is, until the next write to the store. *)

SettingsOf(user_id) == CHOOSE r \in user_settings : r.user_id = user_id

Occurrences(user_id, from, to) ==
    { t \in transactions : t.user_id = user_id /\ from <= t.date /\ t.date <= to }

\* C2: in a returned frame, every row dated D >= anchor_date has
\* balance = start_balance + the amounts of all the user's occurrences dated
\* in [anchor_date, D], whatever the view window.
C2_BalanceExact ==
    \A s \in Sessions :
        calendar_df[s].fresh =>
            LET st == SettingsOf(USER_ID[s])
                rows == calendar_df[s].rows
            IN  \A k \in DOMAIN rows :
                    rows[k].date >= st.start_date =>
                        rows[k].balance = st.start_balance
                            + SumAmounts(Occurrences(USER_ID[s], st.start_date,
                                                     rows[k].date))

\* a frame with a row at or after the anchor whose balance has moved, while
\* the store also holds an occurrence before the anchor and one after the
\* end of the view
C2_Witness ==
    /\ calendar_df[1].fresh
    /\ \E k \in DOMAIN calendar_df[1].rows :
          /\ calendar_df[1].rows[k].date >= Anchor
          /\ calendar_df[1].rows[k].balance # SettingsOf("A").start_balance
    /\ \E t \in transactions : t.date < Anchor
    /\ \E t \in transactions : t.date > calendar_df[1].view_end

\* the days a frame holds, in order
FrameDates(s) == [k \in DOMAIN calendar_df[s].rows |-> calendar_df[s].rows[k].date]

\* C3 as stated: with view_start <= view_end the frame has exactly one row
\* for each day of [view_start, view_end], in date order.
C3_DenseOverView ==
    \A s \in Sessions :
        (calendar_df[s].fresh /\ calendar_df[s].view_start <= calendar_df[s].view_end)
        => FrameDates(s) = [k \in 1..(calendar_df[s].view_end - calendar_df[s].view_start + 1)
                               |-> calendar_df[s].view_start + k - 1]

\* C3 amended: with view_start <= view_end the frame has exactly one row, in
\* date order, for each day of [max(view_start, anchor_date), view_end] when
\* the user has an occurrence dated on or after anchor_date, and for each day
\* of [view_start, view_end] when the user has none.
C3_DenseFromAnchor ==
    \A s \in Sessions :
        (calendar_df[s].fresh /\ calendar_df[s].view_start <= calendar_df[s].view_end)
        => LET st == SettingsOf(USER_ID[s])
               vs == calendar_df[s].view_start
               ve == calendar_df[s].view_end
               some == \E t \in transactions :
                          t.user_id = USER_ID[s] /\ t.date >= st.start_date
               from == IF some /\ vs < st.start_date THEN st.start_date ELSE vs
               want == IF ve < from THEN << >>
                       ELSE [k \in 1..(ve - from + 1) |-> from + k - 1]
           IN  FrameDates(s) = want

\* a frame over a view that starts before the anchor, cut at the anchor
\* because the user has an occurrence on or after it
C3_Witness ==
    /\ calendar_df[1].fresh
    /\ calendar_df[1].view_start < Anchor
    /\ calendar_df[1].view_end > Anchor
    /\ \E t \in transactions : t.date >= Anchor
    /\ Len(calendar_df[1].rows) > 1
    /\ calendar_df[1].rows[1].date = Anchor

\* C8: in a returned frame, on every day from the anchor date on (the days
\* that have a balance), is_actual is true exactly when every occurrence of
\* the user on that date is confirmed; so it is true on every such day
\* without occurrences, before, between and after the stored occurrence dates.
C8_IsActualIffAllConfirmed ==
    \A s \in Sessions :
        calendar_df[s].fresh =>
            \A k \in DOMAIN calendar_df[s].rows :
                LET row == calendar_df[s].rows[k]
                IN  row.date >= SettingsOf(USER_ID[s]).start_date =>
                      ( row.is_actual <=>
                          \A t \in Occurrences(USER_ID[s], row.date, row.date) :
                              t.is_confirmed = 1 )

\* C9: a returned frame has no row dated before the user's anchor_date.
C9_NoRowBeforeAnchor ==
    \A s \in Sessions :
        calendar_df[s].fresh =>
            \A k \in DOMAIN calendar_df[s].rows :
                calendar_df[s].rows[k].date >= SettingsOf(USER_ID[s]).start_date

\* C13: when the user has no settings record, get_calendar_data returns an
\* empty frame, whatever the view window and whatever the store holds.
C13_NoSettingsEmptyFrame ==
    \A s \in Sessions :
        (calendar_df[s].fresh /\ \A r \in user_settings : r.user_id # USER_ID[s])
        => calendar_df[s].rows = << >>

\* the frame returned to a page without settings for a view of several days,
\* while the store holds settings and occurrences of another user
C13_Witness ==
    /\ calendar_df[2].fresh
    /\ \A r \in user_settings : r.user_id # USER_ID[2]
    /\ calendar_df[2].view_start < calendar_df[2].view_end
    /\ calendar_df[2].rows = << >>
    /\ user_settings # {}
    /\ \E t \in transactions : t.date >= calendar_df[2].view_start

\* C14: a call of get_calendar_data, for any user and window, leaves the
\* store (settings, categories, rules, occurrences) exactly as it was: every
\* step that hands a session a new frame leaves the store unchanged.
C14_AggregationReadOnly ==
    [][ (\E s \in Sessions :
            calendar_df'[s].fresh /\ calendar_df'[s] # calendar_df[s])
        => UNCHANGED store ]_vars

\* a frame with several rows has been returned while the store holds an
\* occurrence the aggregation reads and one, before the anchor, it does not
C14_Witness ==
    /\ calendar_df[1].fresh
    /\ Len(calendar_df[1].rows) >= 2
    /\ \E t \in transactions : t.date < SettingsOf("A").start_date
    /\ \E t \in transactions :
          /\ t.date >= SettingsOf("A").start_date
          /\ t.date <= calendar_df[1].view_end

\* C21: in a returned frame, every row has credits equal to the sum of the
\* strictly positive amounts of the user's occurrences on that day and debits
\* equal to the sum of the non-positive ones, so credits >= 0, debits <= 0,
\* and credits + debits is the day's net change; the categories' kinds play
\* no part.
C21_SignOnlyClassification ==
    \A s \in Sessions :
        calendar_df[s].fresh =>
            \A k \in DOMAIN calendar_df[s].rows :
                LET row == calendar_df[s].rows[k]
                    day == Occurrences(USER_ID[s], row.date, row.date)
                IN  /\ row.credits = SumAmounts({ t \in day : t.amount > 0 })
                    /\ row.debits = SumAmounts({ t \in day : t.amount <= 0 })
                    /\ row.credits >= 0
                    /\ row.debits <= 0
                    /\ row.credits + row.debits = SumAmounts(day)

-----------------------------------------------------------------------------
(* Properties of the page *)

\* C20: in each per-interaction run, expansion is carried out for every rule
\* of the user and completes before aggregation starts, so the run does not
\* end in the except branch, and the frame it returns follows a completed
\* expansion and reflects every occurrence dated in [anchor_date, view_end].
C20_ExpansionThenAggregation ==
    \A s \in Sessions :
        /\ (pc[s] = "idle" /\ runs > 0) =>
              outcome[s] \notin {"ValueError", "IntegrityError"}
        /\ calendar_df[s].fresh =>
              /\ lastDone.valid
              /\ lastDone.transactions = transactions
              /\ \A k \in DOMAIN calendar_df[s].rows :
                    LET row == calendar_df[s].rows[k]
                        st == SettingsOf(USER_ID[s])
                    IN  row.date >= st.start_date =>
                          row.balance = st.start_balance
                              + SumAmounts(Occurrences(USER_ID[s], st.start_date,
                                                       row.date))

\* C22: the horizon the page computes and passes to run_projection on every
\* interaction is a date in the form run_projection parses, so the run gets
\* past the parsing of the horizon and never ends in a date-parse error.
C22_PageHorizonParses ==
    \A s \in Sessions :
        /\ outcome[s] # "ValueError"
        /\ runs > 0 => (pc[s] # "idle" \/ outcome[s] = "ok")

====
